---------------------------- MODULE Spec2Model ----------------------------
(***************************************************************************)
(* Email template generator with asset integration.                        *)
(*                                                                         *)
(* The model covers the two document schemas (agent.py and                 *)
(* asset_manager.py), the asset providers, AssetManager's strategy         *)
(* selection and the resolve_assets traversal of                           *)
(* generate_template_with_assets.                                          *)
(*                                                                         *)
(* Python strings are sequences of one-character strings, so that prefix   *)
(* tests, substring tests, slicing, lower() and urllib.parse.quote are     *)
(* computed and not assumed.  Optional[str] is a sequence of length 0      *)
(* (None) or 1 (the value).                                                *)
(***************************************************************************)
EXTENDS Integers, Sequences, FiniteSets, TLC

-----------------------------------------------------------------------------
(* Bounds of the model *)

\* Largest number of modules in a generated candidate document.
MaxModules ==
    2

\* The largest width and height _get_dalle_size is called with by itself.
MaxSide ==
    30

-----------------------------------------------------------------------------
(* Program constants *)

\* AssetManager.get_image: width: int = 800
DefaultWidth ==
    800

\* AssetManager.get_image: height: int = 600
DefaultHeight ==
    600

\* PlaceholderProvider.get_image_url: description[:50]
PlaceholderTextLen ==
    50

\* DALLEProvider._fallback_url: description[:30]
FallbackTextLen ==
    30

\* agent.py Row.columns: min_length=1
MinColumns ==
    1

\* agent.py Row.columns: max_length=12
MaxColumns ==
    12

\* agent.py Template.rows: min_length=1
MinRows ==
    1

\* agent.py Column.weight: ge=1
MinWeight ==
    1

\* agent.py Column.weight: le=12
MaxWeight ==
    12

-----------------------------------------------------------------------------
(* Optional values and Python string operations *)

None ==
    << >>

Some(v) ==
    << v >>

IsNone(o) ==
    o = << >>

\* Python truthiness of an Optional[str]: None and "" are falsy.
Truthy(o) ==
    o # << >> /\ o[1] # << >>

\* s[:n]
Take(s, n) ==
    SubSeq(s, 1, IF n <= Len(s) THEN n ELSE Len(s))

\* s.startswith(p)
StartsWith(s, p) ==
    Len(s) >= Len(p) /\ SubSeq(s, 1, Len(p)) = p

\* p in s
Contains(s, p) ==
    \E i \in 0..(Len(s) - Len(p)) : SubSeq(s, i + 1, i + Len(p)) = p

\* s.replace(old, ""): every non-overlapping occurrence, left to right.
RECURSIVE Remove(_, _)
Remove(s, old) ==
    IF s = << >> THEN << >>
    ELSE IF StartsWith(s, old) THEN Remove(SubSeq(s, Len(old) + 1, Len(s)), old)
    ELSE << Head(s) >> \o Remove(Tail(s), old)

UpperCase ==
    <<"A","B","C","D","E","F","G","H","I","J","K","L","M",
      "N","O","P","Q","R","S","T","U","V","W","X","Y","Z">>

LowerCase ==
    <<"a","b","c","d","e","f","g","h","i","j","k","l","m",
      "n","o","p","q","r","s","t","u","v","w","x","y","z">>

Digits ==
    <<"0","1","2","3","4","5","6","7","8","9">>

\* s.lower()
Lower(s) ==
    [i \in 1..Len(s) |->
        IF \E k \in 1..26 : UpperCase[k] = s[i]
        THEN LowerCase[CHOOSE k \in 1..26 : UpperCase[k] = s[i]]
        ELSE s[i]]

\* str(n) for n >= 0, as the f-strings format width and height.
RECURSIVE IntToStr(_)
IntToStr(n) ==
    IF n < 10 THEN << Digits[n + 1] >>
    ELSE IntToStr(n \div 10) \o << Digits[(n % 10) + 1] >>

\* The two hex digits of the ASCII characters that occur and are escaped.
HexOf(c) ==
    CASE c = " " -> <<"2","0">>
      [] c = "%" -> <<"2","5">>
      [] c = "&" -> <<"2","6">>
      [] c = ":" -> <<"3","A">>
      [] c = "=" -> <<"3","D">>
      [] c = "?" -> <<"3","F">>

\* Characters urllib.parse.quote leaves alone (unreserved ones and safe="/").
SafeChars ==
    {UpperCase[i] : i \in 1..26} \cup {LowerCase[i] : i \in 1..26}
        \cup {Digits[i] : i \in 1..10} \cup {"_", ".", "-", "~", "/"}

QuoteChar(c) ==
    IF c \in SafeChars THEN << c >> ELSE <<"%">> \o HexOf(c)

\* urllib.parse.quote(s)
RECURSIVE Quote(_)
Quote(s) ==
    IF s = << >> THEN << >> ELSE QuoteChar(Head(s)) \o Quote(Tail(s))

-----------------------------------------------------------------------------
(* String literals of the program *)

\* "logo-"
LogoPrefix ==
    <<"l","o","g","o","-">>
\* "social-"
SocialPrefix ==
    <<"s","o","c","i","a","l","-">>
\* "custom"
CustomMarker ==
    <<"c","u","s","t","o","m">>
\* "generate"
GenerateMarker ==
    <<"g","e","n","e","r","a","t","e">>
\* "https://your-cdn.com/assets"
DefaultBaseUrl ==
    <<"h","t","t","p","s",":","/","/","y","o","u","r","-","c","d","n",".","c","o","m","/","a","s","s","e","t","s">>
\* "/logo-primary.png"
Logo_primary ==
    <<"/","l","o","g","o","-","p","r","i","m","a","r","y",".","p","n","g">>
\* "primary"
Key_primary ==
    <<"p","r","i","m","a","r","y">>
\* "/logo-white.png"
Logo_white ==
    <<"/","l","o","g","o","-","w","h","i","t","e",".","p","n","g">>
\* "white"
Key_white ==
    <<"w","h","i","t","e">>
\* "/logo-icon.png"
Logo_icon ==
    <<"/","l","o","g","o","-","i","c","o","n",".","p","n","g">>
\* "icon"
Key_icon ==
    <<"i","c","o","n">>
\* "/social/facebook.png"
Social_facebook ==
    <<"/","s","o","c","i","a","l","/","f","a","c","e","b","o","o","k",".","p","n","g">>
\* "facebook"
Key_facebook ==
    <<"f","a","c","e","b","o","o","k">>
\* "/social/twitter.png"
Social_twitter ==
    <<"/","s","o","c","i","a","l","/","t","w","i","t","t","e","r",".","p","n","g">>
\* "twitter"
Key_twitter ==
    <<"t","w","i","t","t","e","r">>
\* "/social/instagram.png"
Social_instagram ==
    <<"/","s","o","c","i","a","l","/","i","n","s","t","a","g","r","a","m",".","p","n","g">>
\* "instagram"
Key_instagram ==
    <<"i","n","s","t","a","g","r","a","m">>
\* "/social/linkedin.png"
Social_linkedin ==
    <<"/","s","o","c","i","a","l","/","l","i","n","k","e","d","i","n",".","p","n","g">>
\* "linkedin"
Key_linkedin ==
    <<"l","i","n","k","e","d","i","n">>
\* "/banners/hero.jpg"
Banner_hero ==
    <<"/","b","a","n","n","e","r","s","/","h","e","r","o",".","j","p","g">>
\* "hero"
Key_hero ==
    <<"h","e","r","o">>
\* "/banners/promo.jpg"
Banner_promo ==
    <<"/","b","a","n","n","e","r","s","/","p","r","o","m","o",".","j","p","g">>
\* "promo"
Key_promo ==
    <<"p","r","o","m","o">>
\* "https://source.unsplash.com/"
UnsplashSourcePrefix ==
    <<"h","t","t","p","s",":","/","/","s","o","u","r","c","e",".","u","n","s","p","l","a","s","h",".","c","o","m","/">>
\* "https://placehold.co/"
PlaceholdPrefix ==
    <<"h","t","t","p","s",":","/","/","p","l","a","c","e","h","o","l","d",".","c","o","/">>
\* "/e5e7eb/1f2937?text="
PlaceholdColors ==
    <<"/","e","5","e","7","e","b","/","1","f","2","9","3","7","?","t","e","x","t","=">>
\* "https://placehold.co/800x600/2563eb/white?text="
DalleFallbackPrefix ==
    <<"h","t","t","p","s",":","/","/","p","l","a","c","e","h","o","l","d",".","c","o","/","8","0","0","x","6","0","0","/","2","5","6","3","e","b","/","w","h","i","t","e","?","t","e","x","t","=">>
-----------------------------------------------------------------------------
(* Results of calls: a returned value, or an exception leaving the callee *)

Ret(v) ==
    [raised |-> FALSE, value |-> v]

Raise ==
    [raised |-> TRUE, value |-> << >>]

-----------------------------------------------------------------------------
(* Outcomes of the external services, one per call *)

\* data["results"][0]["urls"]["regular"] of an Unsplash search response
UnsplashHit ==
    <<"h","t","t","p","s",":","/","/","i","m","a","g","e","s",".","u","n","s","p","l","a","s","h",".","c","o","m","/","p","-","1">>
\* response.data[0].url of an image generation response
DalleHit ==
    <<"h","t","t","p","s",":","/","/","o","a","i","d","a","l","l","e","a","p","i","p","r","o","d","s","c","u","s",".","n","e","t","/","i","-","1">>
\* What the external service called during one get_image does: it raises
\* (network error, bad response), answers with an empty result list, or
\* answers with the URL of an image.
Outcomes ==
    {"error", "empty", "hit"}

-----------------------------------------------------------------------------
(* Asset providers *)

\* UnsplashProvider.get_image_url
UnsplashGetImageUrl(description, width, height) ==
    UnsplashSourcePrefix \o IntToStr(width) \o <<"x">> \o IntToStr(height)
        \o <<"/","?">> \o Quote(description)

\* UnsplashProvider.search_specific_image: Optional[str]
SearchSpecificImage(access_key, query, net) ==
    IF ~access_key THEN Ret(None)
    ELSE IF net = "hit" THEN Ret(Some(UnsplashHit))
    ELSE Ret(None)

\* DALLEProvider._fallback_url
FallbackUrl(description) ==
    DalleFallbackPrefix \o Quote(Take(description, FallbackTextLen))

\* generate_image without its try/except: a failed generation raises.
GenerateImage_NoCatch(description, size, net) ==
    IF net = "hit" THEN Ret(DalleHit) ELSE Raise

\* DALLEProvider.generate_image
GenerateImage(description, size, net) ==
    IF net = "hit" THEN Ret(DalleHit)
    ELSE Ret(FallbackUrl(description))

\* PlaceholderProvider.get_image_url
PlaceholderGetImageUrl(description, width, height) ==
    PlaceholdPrefix \o IntToStr(width) \o <<"x">> \o IntToStr(height)
        \o PlaceholdColors \o Quote(Take(description, PlaceholderTextLen))

\* CustomAssetLibrary.__init__: self.assets["logos"]
Logos(base_url) ==
    { << Key_primary, base_url \o Logo_primary >>,
      << Key_white, base_url \o Logo_white >>,
      << Key_icon, base_url \o Logo_icon >> }

\* CustomAssetLibrary.__init__: self.assets["social"]
Social(base_url) ==
    { << Key_facebook, base_url \o Social_facebook >>,
      << Key_twitter, base_url \o Social_twitter >>,
      << Key_instagram, base_url \o Social_instagram >>,
      << Key_linkedin, base_url \o Social_linkedin >> }

\* CustomAssetLibrary.__init__: self.assets["banners"]
Banners(base_url) ==
    { << Key_hero, base_url \o Banner_hero >>,
      << Key_promo, base_url \o Banner_promo >> }

\* dict.get(key, default)
DictGet(dict, key, default) ==
    IF \E e \in dict : e[1] = key
    THEN (CHOOSE e \in dict : e[1] = key)[2]
    ELSE default

\* get_logo reading the default library instead of the configured one.
LibGetLogo_DefaultLibrary(base_url, variant) ==
    DictGet(Logos(DefaultBaseUrl), variant,
            DictGet(Logos(DefaultBaseUrl), Key_primary, << >>))

\* CustomAssetLibrary.get_logo
LibGetLogo(base_url, variant) ==
    DictGet(Logos(base_url), variant, DictGet(Logos(base_url), Key_primary, << >>))

\* CustomAssetLibrary.get_social_icon
LibGetSocialIcon(base_url, platform) ==
    DictGet(Social(base_url), Lower(platform), << >>)

\* CustomAssetLibrary.get_banner
LibGetBanner(base_url, type) ==
    DictGet(Banners(base_url), type, << >>)

-----------------------------------------------------------------------------
(* AssetManager *)

Strategies ==
    {"unsplash", "dalle", "placeholder", "mixed"}

\* Python integers below 2^52, held as two limbs: hi * Limb + lo.
Limb ==
    2^26

PyInt(n) ==
    [hi |-> n \div Limb, lo |-> n % Limb]

\* a * x - b * y for two such integers and factors up to 15: the difference
\* itself where it lies within -Limb .. Limb, and the nearer end of that
\* range where it does not.
Diff(a, x, b, y) ==
    LET dh == a * x.hi - b * y.hi
        dl == a * x.lo - b * y.lo
    IN  IF dh >= 16 THEN Limb
        ELSE IF dh <= -16 THEN -Limb
        ELSE LET d == dh * Limb + dl
             IN  IF d > Limb THEN Limb ELSE IF d < -Limb THEN -Limb ELSE d

\* ratio = width / height; ratio > 1.5
\* The quotient of two ints is the double nearest to the fraction, and 1.5 is
\* a double: the quotient is above it when the fraction is above
\* 1.5 + 2^-53, that is when 2^52 * (2 * width - 3 * height) > height, which
\* below 2^52 every positive difference satisfies.
RatioAbove(width, height) ==
    Diff(2, width, 3, height) > 0

\* ratio < 0.7
\* The literal 0.7 is the double m / 2^53 with 10 * m = 7 * 2^53 - 4, under
\* 7/10.  The quotient is below it when the fraction is below
\* (2 * m - 1) / 2^54, that is when 2^53 * (7 * height - 10 * width)
\* > 9 * height: a fraction under 7/10 by less than that gives the literal
\* itself.
RatioBelow(width, height) ==
    LET e == Diff(7, height, 10, width)
    IN  /\ e > 0
        /\ \/ e >= 9
           \/ 9 * height.hi + (9 * height.lo) \div Limb < e * 2^27

\* AssetManager._get_dalle_size
GetDalleSize(width, height) ==
    IF RatioAbove(width, height) THEN "1792x1024"
    ELSE IF RatioBelow(width, height) THEN "1024x1792"
    ELSE "1024x1024"

\* A result of get_image: the value or exception, and the providers consulted.
Via(r, providers) ==
    [raised |-> r.raised, value |-> r.value, via |-> providers]

\* get_image returning the search result as it is under "mixed", without
\* the fallback to the placeholder provider.
GetImage_NoFallback(strategy, access_key, description, width, height, use_ai, net) ==
    IF use_ai /\ strategy \in {"dalle", "mixed"}
    THEN Via(GenerateImage(description, GetDalleSize(PyInt(width), PyInt(height)),
                           net),
             <<"dalle.generate_image">>)
    ELSE IF strategy = "unsplash"
    THEN Via(Ret(UnsplashGetImageUrl(description, width, height)),
             <<"unsplash.get_image_url">>)
    ELSE IF strategy = "placeholder"
    THEN Via(Ret(PlaceholderGetImageUrl(description, width, height)),
             <<"placeholder.get_image_url">>)
    ELSE LET s == SearchSpecificImage(access_key, description, net)
         IN  Via(Ret(IF Truthy(s.value) THEN s.value[1] ELSE << >>),
                 <<"unsplash.search_specific_image">>)

\* get_image consulting the image generation whenever use_ai is set, under
\* every strategy.
GetImage_AiUnderEveryStrategy(strategy, access_key, description, width, height, use_ai, net) ==
    IF use_ai
    THEN Via(GenerateImage(description, GetDalleSize(PyInt(width), PyInt(height)),
                           net),
             <<"dalle.generate_image">>)
    ELSE IF strategy = "unsplash"
    THEN Via(Ret(UnsplashGetImageUrl(description, width, height)),
             <<"unsplash.get_image_url">>)
    ELSE IF strategy = "placeholder"
    THEN Via(Ret(PlaceholderGetImageUrl(description, width, height)),
             <<"placeholder.get_image_url">>)
    ELSE LET s == SearchSpecificImage(access_key, description, net)
         IN  IF s.raised THEN Via(s, <<"unsplash.search_specific_image">>)
             ELSE IF Truthy(s.value)
             THEN Via(Ret(s.value[1]), <<"unsplash.search_specific_image">>)
             ELSE Via(Ret(PlaceholderGetImageUrl(description, width, height)),
                      <<"unsplash.search_specific_image",
                        "placeholder.get_image_url">>)

\* get_image answering "dalle" without use_ai from the Unsplash URL template,
\* as it answers "unsplash".
GetImage_DalleUsesUrlTemplate(strategy, access_key, description, width, height, use_ai, net) ==
    IF use_ai /\ strategy \in {"dalle", "mixed"}
    THEN Via(GenerateImage(description, GetDalleSize(PyInt(width), PyInt(height)),
                           net),
             <<"dalle.generate_image">>)
    ELSE IF strategy \in {"unsplash", "dalle"}
    THEN Via(Ret(UnsplashGetImageUrl(description, width, height)),
             <<"unsplash.get_image_url">>)
    ELSE IF strategy = "placeholder"
    THEN Via(Ret(PlaceholderGetImageUrl(description, width, height)),
             <<"placeholder.get_image_url">>)
    ELSE LET s == SearchSpecificImage(access_key, description, net)
         IN  IF s.raised THEN Via(s, <<"unsplash.search_specific_image">>)
             ELSE IF Truthy(s.value)
             THEN Via(Ret(s.value[1]), <<"unsplash.search_specific_image">>)
             ELSE Via(Ret(PlaceholderGetImageUrl(description, width, height)),
                      <<"unsplash.search_specific_image",
                        "placeholder.get_image_url">>)

\* AssetManager.get_image
GetImage(strategy, access_key, description, width, height, use_ai, net) ==
    IF use_ai /\ strategy \in {"dalle", "mixed"}
    THEN Via(GenerateImage(description, GetDalleSize(PyInt(width), PyInt(height)),
                           net),
             <<"dalle.generate_image">>)
    ELSE IF strategy = "unsplash"
    THEN Via(Ret(UnsplashGetImageUrl(description, width, height)),
             <<"unsplash.get_image_url">>)
    ELSE IF strategy = "placeholder"
    THEN Via(Ret(PlaceholderGetImageUrl(description, width, height)),
             <<"placeholder.get_image_url">>)
    ELSE LET s == SearchSpecificImage(access_key, description, net)
         IN  IF s.raised THEN Via(s, <<"unsplash.search_specific_image">>)
             ELSE IF Truthy(s.value)
             THEN Via(Ret(s.value[1]), <<"unsplash.search_specific_image">>)
             ELSE Via(Ret(PlaceholderGetImageUrl(description, width, height)),
                      <<"unsplash.search_specific_image",
                        "placeholder.get_image_url">>)

\* AssetManager.get_logo
GetLogo(base_url, variant) ==
    Via(Ret(LibGetLogo(base_url, variant)), <<"custom.get_logo">>)

\* AssetManager.get_social_icons: {platform: icon for platform in platforms}
GetSocialIcons(base_url, platforms) ==
    { << platforms[i], LibGetSocialIcon(base_url, platforms[i]) >> :
        i \in 1..Len(platforms) }

\* dict[key] of a key the dict holds
DictIndex(dict, key) ==
    (CHOOSE e \in dict : e[1] = key)[2]

\* dict[key] = value
DictSet(dict, key, value) ==
    {e \in dict : e[1] # key} \cup { << key, value >> }

DictKeys(dict) ==
    {e[1] : e \in dict}

-----------------------------------------------------------------------------
(* Document model: candidates (untyped values) and validated documents *)

TemplateTypes ==
    {"email", "page", "popup"}

\* agent.py: the type literals of the members of the Module union
AgentModuleTypes ==
    {"button", "divider", "html", "icons", "image", "list", "menu",
     "paragraph", "title", "heading"}

\* A module of a candidate: its type tag and the fields the model follows.
RawModule(type, src, alt, text, href) ==
    [type |-> type, src |-> src, alt |-> alt, text |-> text, href |-> href]

\* A validated module: the class pydantic built, and the fields it declares.
TypedModule(cls, type, src, alt, text, href) ==
    [cls |-> cls, type |-> type, src |-> src, alt |-> alt, text |-> text,
     href |-> href]

\* asset_manager.py: Union[ImageModule, ButtonModule, Module].  ImageModule
\* requires src and alt, ButtonModule requires text and href, the base Module
\* takes any type string and keeps no other field.
AssetsParseModule(m) ==
    IF m.type = "image" /\ ~IsNone(m.src) /\ ~IsNone(m.alt)
    THEN TypedModule("ImageModule", m.type, m.src, m.alt, None, m.href)
    ELSE IF m.type = "button" /\ ~IsNone(m.text) /\ ~IsNone(m.href)
    THEN TypedModule("ButtonModule", m.type, None, None, m.text, m.href)
    ELSE TypedModule("Module", m.type, None, None, None, None)

\* asset_manager.py Column: weight: int, modules: List[...]
AssetsParseColumn(c) ==
    [weight |-> c.weight,
     modules |-> [i \in 1..Len(c.modules) |-> AssetsParseModule(c.modules[i])]]

\* asset_manager.py Row: name: str, columns: List[Column]
AssetsParseRow(r) ==
    [name |-> r.name,
     columns |-> [i \in 1..Len(r.columns) |-> AssetsParseColumn(r.columns[i])]]

\* asset_manager.py Template / EmailTemplate: what the schema rejects
AssetsValid(c) ==
    c.type \in TemplateTypes

\* asset_manager.py EmailTemplate: the validated document
AssetsParse(c) ==
    [type |-> c.type,
     rows |-> [i \in 1..Len(c.rows) |-> AssetsParseRow(c.rows[i])]]

\* agent.py: the class of the Module union a type tag selects
AgentClass(type) ==
    CASE type = "button" -> "ButtonModule"
      [] type = "divider" -> "DividerModule"
      [] type = "html" -> "HtmlModule"
      [] type = "icons" -> "IconsModule"
      [] type = "image" -> "ImageModule"
      [] type = "list" -> "ListModule"
      [] type = "menu" -> "MenuModule"
      [] type = "paragraph" -> "ParagraphModule"
      [] type \in {"title", "heading"} -> "TitleModule"

\* agent.py: the fields among src, alt, text, href each class declares
AgentParseModule(m) ==
    LET cls == AgentClass(m.type)
    IN  TypedModule(cls, m.type,
            IF cls = "ImageModule" THEN m.src ELSE None,
            IF cls = "ImageModule" THEN m.alt ELSE None,
            IF cls \in {"ButtonModule", "ListModule", "ParagraphModule",
                        "TitleModule"} THEN m.text ELSE None,
            IF cls \in {"ButtonModule", "ImageModule"} THEN m.href ELSE None)

\* agent.py Column: weight ge=1 le=12, modules: List[Module]
AgentValidColumn(c) ==
    /\ c.weight >= MinWeight /\ c.weight <= MaxWeight
    /\ \A i \in 1..Len(c.modules) : c.modules[i].type \in AgentModuleTypes

\* agent.py Row: columns min_length=1 max_length=12
AgentValidRow(r) ==
    /\ Len(r.columns) >= MinColumns /\ Len(r.columns) <= MaxColumns
    /\ \A i \in 1..Len(r.columns) : AgentValidColumn(r.columns[i])

\* agent.py Template / EmailTemplate: rows min_length=1
AgentValid(c) ==
    /\ c.type \in TemplateTypes
    /\ Len(c.rows) >= MinRows
    /\ \A i \in 1..Len(c.rows) : AgentValidRow(c.rows[i])

\* agent.py EmailTemplate: the validated document
AgentParse(c) ==
    [type |-> c.type,
     rows |-> [i \in 1..Len(c.rows) |->
        [name |-> c.rows[i].name,
         columns |-> [j \in 1..Len(c.rows[i].columns) |->
            [weight |-> c.rows[i].columns[j].weight,
             modules |-> [k \in 1..Len(c.rows[i].columns[j].modules) |->
                AgentParseModule(c.rows[i].columns[j].modules[k])]]]]]]

-----------------------------------------------------------------------------
(* Candidate documents the completion service may return *)

\* "logo-primary"
RefLogoPrimary ==
    <<"l","o","g","o","-","p","r","i","m","a","r","y">>
\* "Go"
TextCta ==
    <<"G","o">>

\* Image modules of a candidate. References of the curated library, as the
\* system prompt asks for them: "logo-primary" and "social-facebook".
\* Descriptive references: the plain "hero-launch", and "custom-art", which
\* carries the "custom" marker. Alt texts: none, and "Modern tech startup
\* office with team collaboration space", longer than both truncation
\* lengths and with characters that quote escapes.
ImageCands ==
    {RawModule("image", Some(r), Some(<< >>), None, None) :
        r \in {RefLogoPrimary,
                <<"s","o","c","i","a","l","-","f","a","c","e","b","o","o","k">>}}
        \cup {RawModule("image", Some(r), Some(a), None, None) :
                r \in {<<"h","e","r","o","-","l","a","u","n","c","h">>,
                        <<"c","u","s","t","o","m","-","a","r","t">>},
                a \in {<< >>,
                        <<"M","o","d","e","r","n"," ","t","e","c","h"," ","s","t","a","r","t","u","p"," ","o","f","f","i","c","e"," ","w","i","t","h"," ","t","e","a","m"," ","c","o","l","l","a","b","o","r","a","t","i","o","n"," ","s","p","a","c","e">>}}

Paragraph ==
    RawModule("paragraph", None, None, Some(TextCta), None)

Heading ==
    RawModule("heading", None, None, Some(TextCta), None)

UnknownWidget ==
    RawModule("unknown-widget", None, None, Some(TextCta), None)

\* Modules of a candidate: the images and a button with href "/go".
ModuleCands ==
    ImageCands
        \cup { RawModule("button", None, None, Some(TextCta),
                         Some(<<"/","g","o">>)) }

RawColumn(weight, modules) ==
    [weight |-> weight, modules |-> modules]

RawRow(columns) ==
    [name |-> "row", columns |-> columns]

RawDoc(type, rows) ==
    [type |-> type, rows |-> rows]


\* The rows holding ms[1..k], laid out as brk says.
RECURSIVE Layout(_, _, _)
Layout(ms, brk, k) ==
    IF k = 1 THEN << RawRow(<< RawColumn(6, << ms[1] >>) >>) >>
    ELSE LET prev == Layout(ms, brk, k - 1)
             r == Len(prev)
             c == Len(prev[r].columns)
         IN  CASE brk[k - 1] = "row" ->
                    Append(prev, RawRow(<< RawColumn(6, << ms[k] >>) >>))
               [] brk[k - 1] = "column" ->
                    [prev EXCEPT ![r].columns =
                        Append(@, RawColumn(6, << ms[k] >>))]
               [] brk[k - 1] = "module" ->
                    [prev EXCEPT ![r].columns[c].modules = Append(@, ms[k])]

\* Documents of n modules. brk says how a module follows the one before it:
\* in the same column, in a new column of the same row, or in a new row.
LaidOutDocs(n) ==
    { RawDoc("email", Layout(ms, brk, n)) :
        ms \in [1..n -> ModuleCands],
        brk \in [1..(n - 1) -> {"module", "column", "row"}] }

\* A row of n columns, each holding one paragraph.
WideRow(n) ==
    RawRow([i \in 1..n |-> RawColumn(6, << Paragraph >>)])

\* Candidates at the edges of the schema's constraints.
\* An image that names an asset the curated library does not hold:
\* "social-tiktok" and "logo-dark" in EdgeDocs.
UnlistedAsset(ref) ==
    RawModule("image", Some(ref), Some(<< >>), None, None)

EdgeDocs ==
    { RawDoc("email", << >>),
      RawDoc("email", << RawRow(<< RawColumn(6, << Heading >>) >>) >>),
      RawDoc("email", << RawRow(<< RawColumn(6, << UnknownWidget >>) >>) >>),
      RawDoc("newsletter", << WideRow(1) >>),
      RawDoc("email", << WideRow(0) >>),
      RawDoc("email", << WideRow(MaxColumns) >>),
      RawDoc("email", << WideRow(MaxColumns + 1) >>),
      RawDoc("email", << RawRow(<< RawColumn(6, << >>) >>) >>),
      RawDoc("email", << RawRow(<< RawColumn(0, << Paragraph >>) >>) >>),
      RawDoc("email", << RawRow(<< RawColumn(MaxWeight + 1, << Paragraph >>) >>) >>),
      RawDoc("email", << RawRow(<< RawColumn(6, << UnlistedAsset(<<"s","o","c","i","a","l","-","t","i","k","t","o","k">>) >>) >>) >>),
      RawDoc("email", << RawRow(<< RawColumn(6, << UnlistedAsset(<<"l","o","g","o","-","d","a","r","k">>) >>) >>) >>) }

Candidates ==
    UNION {LaidOutDocs(n) : n \in 1..MaxModules} \cup EdgeDocs

\* "https://cdn.mycompany.com"
CompanyBaseUrl ==
    <<"h","t","t","p","s",":","/","/","c","d","n",".","m","y","c","o","m","p","a","n","y",".","c","o","m">>
-----------------------------------------------------------------------------
(* Traversal order of resolve_assets *)

RECURSIVE Flatten(_)
Flatten(ss) ==
    IF Len(ss) = 0 THEN << >> ELSE Head(ss) \o Flatten(Tail(ss))

\* The modules of a document in the order resolve_assets reaches them:
\* rows in order, in each row its columns in order, in each column its modules.
Positions(doc) ==
    Flatten([r \in 1..Len(doc.rows) |->
        Flatten([c \in 1..Len(doc.rows[r].columns) |->
            [m \in 1..Len(doc.rows[r].columns[c].modules) |-> << r, c, m >>]])])

ModuleAt(doc, p) ==
    doc.rows[p[1]].columns[p[2]].modules[p[3]]

\* The module rebuilt around the URL instead of mutated: its alt text is lost.
SetSrc_DropsAlt(doc, p, url) ==
    [doc EXCEPT !.rows[p[1]].columns[p[2]].modules[p[3]] =
        [@ EXCEPT !.src = Some(url), !.alt = Some(<< >>)]]

\* obj.src = url
SetSrc(doc, p, url) ==
    [doc EXCEPT !.rows[p[1]].columns[p[2]].modules[p[3]].src = Some(url)]

\* use_ai = "custom" in description or "generate" in description.lower()
UseAi(description) ==
    Contains(description, CustomMarker)
        \/ Contains(Lower(description), GenerateMarker)

\* obj.alt or description
Query(obj) ==
    IF Truthy(obj.alt) THEN obj.alt[1] ELSE obj.src[1]

-----------------------------------------------------------------------------
(* agent.py: the schema field by field, and the saved JSON document *)

\* JSON values, as json.load builds them and json.dump writes them: each
\* Python value kind has its own JSON form, so writing and reading back keeps
\* kind and content.
JNull ==
    [kind |-> "null", val |-> << >>]

JBool(b) ==
    [kind |-> "bool", val |-> b]

JInt(n) ==
    [kind |-> "int", val |-> n]

JStr(s) ==
    [kind |-> "str", val |-> s]

JArr(items) ==
    [kind |-> "array", val |-> items]

\* A JSON object from its members, a set of << key, value >> pairs.
JObj(members) ==
    [kind |-> "object",
     val |-> [k \in {p[1] : p \in members} |->
                (CHOOSE p \in members : p[1] = k)[2]]]

\* Field declarations.  name is the attribute, alias the Field(alias=...)
\* (the name itself without one); lo and hi are ge= and le=, allowed the
\* Literal values, classes the model classes of a nested field.
Decl(name, alias, kind, required) ==
    [name |-> name, alias |-> alias, kind |-> kind, required |-> required,
     lo |-> None, hi |-> None, allowed |-> {}, classes |-> << >>]

OptStr(name, alias) ==
    Decl(name, alias, "str", FALSE)

OptBool(name, alias) ==
    Decl(name, alias, "bool", FALSE)

OptDict(name, alias) ==
    Decl(name, alias, "dict", FALSE)

OptInt(name, alias, lo, hi) ==
    [Decl(name, alias, "int", FALSE) EXCEPT !.lo = lo, !.hi = hi]

ReqInt(name, lo, hi) ==
    [Decl(name, name, "int", TRUE) EXCEPT !.lo = lo, !.hi = hi]

ReqStr(name) ==
    Decl(name, name, "str", TRUE)

ReqLiteral(name, allowed) ==
    [Decl(name, name, "literal", TRUE) EXCEPT !.allowed = allowed]

ReqModel(name, cls) ==
    [Decl(name, name, "model", TRUE) EXCEPT !.classes = << cls >>]

\* List[...] with Field(min_length=lo, max_length=hi)
ReqList(name, classes, lo, hi) ==
    [Decl(name, name, "list", TRUE) EXCEPT
        !.classes = classes, !.lo = lo, !.hi = hi]

MinPadding ==
    0

MaxPadding ==
    60

MinSize ==
    1

\* The fields every text-carrying module declares alike.
CommonFields ==
    << OptStr("text", "text"),
       OptInt("size", "size", Some(MinSize), None),
       OptInt("padding_top", "padding-top", Some(MinPadding), Some(MaxPadding)),
       OptBool("locked", "locked"),
       OptDict("custom_fields", "customFields") >>

\* Module = Union[ButtonModule, ..., TitleModule], in declaration order.
ModuleUnion ==
    << "ButtonModule", "HtmlModule", "ParagraphModule", "TitleModule" >>

\* The declared fields of a model class.  Of the optional fields of a class
\* those are listed that the documents below set; the others are declared
\* the same way (Optional, default None, some with an alias and bounds).
Fields(cls) ==
    CASE cls = "ButtonModule" ->
            << ReqLiteral("type", {"button"}) >> \o CommonFields
                \o << OptStr("background_color", "background-color") >>
      [] cls = "HtmlModule" ->
            << ReqLiteral("type", {"html"}),
               OptStr("html", "html"),
               OptBool("locked", "locked"),
               OptDict("custom_fields", "customFields") >>
      [] cls = "ParagraphModule" ->
            << ReqLiteral("type", {"paragraph"}) >> \o CommonFields
      [] cls = "TitleModule" ->
            << ReqLiteral("type", {"title", "heading"}) >> \o CommonFields
      [] cls = "Column" ->
            << ReqInt("weight", Some(MinWeight), Some(MaxWeight)),
               ReqList("modules", ModuleUnion, None, None),
               OptStr("background_color", "background-color") >>
      [] cls = "Row" ->
            << ReqStr("name"),
               ReqList("columns", << "Column" >>,
                       Some(MinColumns), Some(MaxColumns)),
               OptBool("col_stack_on_mobile", "colStackOnMobile") >>
      [] cls = "Template" ->
            << ReqLiteral("type", TemplateTypes),
               ReqList("rows", << "Row" >>, Some(MinRows), None) >>
      [] cls = "EmailTemplate" ->
            << ReqModel("template", "Template") >>

\* ge= / le= on a value
InBounds(f, n) ==
    /\ f.lo # None => n >= f.lo[1]
    /\ f.hi # None => n <= f.hi[1]

Valid(v) ==
    [ok |-> TRUE, value |-> v]

Invalid ==
    [ok |-> FALSE, value |-> None]

\* The key under which a JSON object holds a field: the alias, or with
\* populate_by_name the attribute name.
KeyOf(f, members) ==
    IF f.alias \in DOMAIN members THEN Some(f.alias)
    ELSE IF f.name \in DOMAIN members THEN Some(f.name)
    ELSE None

RECURSIVE ModelValidate(_, _)

\* The first class of a Union that validates the value.
UnionValidate(classes, j) ==
    LET passing == {i \in 1..Len(classes) : ModelValidate(classes[i], j).ok}
    IN  IF passing = {} THEN Invalid
        ELSE ModelValidate(classes[CHOOSE i \in passing :
                                      \A k \in passing : i <= k], j)

\* One field of a model validated from the members of a JSON object: an
\* absent or null optional field becomes None, a present one keeps its value
\* when it is of the declared kind and within the declared bounds.
FieldValidate(f, members) ==
    LET key == KeyOf(f, members)
    IN  IF key = None \/ members[key[1]].kind = "null"
        THEN IF f.required THEN Invalid ELSE Valid(None)
        ELSE
          LET j == members[key[1]]
          IN  CASE f.kind = "str" ->
                      IF j.kind = "str" THEN Valid(Some(j.val)) ELSE Invalid
                [] f.kind = "literal" ->
                      IF j.kind = "str" /\ j.val \in f.allowed
                      THEN Valid(Some(j.val)) ELSE Invalid
                [] f.kind = "bool" ->
                      IF j.kind = "bool" THEN Valid(Some(j.val)) ELSE Invalid
                [] f.kind = "int" ->
                      IF j.kind = "int" /\ InBounds(f, j.val)
                      THEN Valid(Some(j.val)) ELSE Invalid
                [] f.kind = "dict" ->
                      IF j.kind = "object" THEN Valid(Some(j.val)) ELSE Invalid
                [] f.kind = "model" ->
                      LET r == ModelValidate(f.classes[1], j)
                      IN  IF r.ok THEN Valid(Some(r.value)) ELSE Invalid
                [] f.kind = "list" ->
                      IF j.kind = "array" /\ InBounds(f, Len(j.val))
                      THEN LET rs == [i \in 1..Len(j.val) |->
                                        UnionValidate(f.classes, j.val[i])]
                           IN  IF \A i \in 1..Len(rs) : rs[i].ok
                               THEN Valid(Some([i \in 1..Len(rs) |->
                                                   rs[i].value]))
                               ELSE Invalid
                      ELSE Invalid

\* cls.model_validate(j): an instance holding every declared field, or a
\* validation error.  Members that are no declared field are ignored.
ModelValidate(cls, j) ==
    IF j.kind # "object" THEN Invalid
    ELSE
      LET fs == Fields(cls)
          rs == [i \in 1..Len(fs) |-> FieldValidate(fs[i], j.val)]
      IN  IF \A i \in 1..Len(fs) : rs[i].ok
          THEN Valid([cls |-> cls,
                      fields |-> [n \in {fs[i].name : i \in 1..Len(fs)} |->
                                    rs[CHOOSE i \in 1..Len(fs) :
                                          fs[i].name = n].value]])
          ELSE Invalid

\* A falsy value of a field's kind.
Falsy(f, v) ==
    CASE f.kind = "int" -> v = 0
      [] f.kind = "bool" -> v = FALSE
      [] f.kind \in {"str", "literal"} -> v = ""
      [] f.kind = "dict" -> DOMAIN v = {}
      [] f.kind = "list" -> Len(v) = 0
      [] OTHER -> FALSE

\* A dump that leaves out every falsy field, not only the absent ones.
Excluded_Falsy(f, v) ==
    v = None \/ Falsy(f, v[1])

\* exclude_none=True: a field is left out of the dump when it is None.
Excluded(f, v) ==
    v = None

RECURSIVE ModelDump(_)

\* The dumped value of a field that is not None.
FieldDump(f, v) ==
    CASE f.kind \in {"str", "literal"} -> JStr(v)
      [] f.kind = "bool" -> JBool(v)
      [] f.kind = "int" -> JInt(v)
      [] f.kind = "dict" -> [kind |-> "object", val |-> v]
      [] f.kind = "model" -> ModelDump(v)
      [] f.kind = "list" -> JArr([i \in 1..Len(v) |-> ModelDump(v[i])])

\* obj.model_dump(by_alias=True, exclude_none=True): the fields under their
\* aliases.
ModelDump(obj) ==
    LET fs == Fields(obj.cls)
        kept == {i \in 1..Len(fs) : ~Excluded(fs[i], obj.fields[fs[i].name])}
    IN  [kind |-> "object",
         val |-> [k \in {fs[i].alias : i \in kept} |->
                    LET i == CHOOSE i \in kept : fs[i].alias = k
                    IN  FieldDump(fs[i], obj.fields[fs[i].name][1])]]

\* Completions for the field-level schema: one row, one column, one module
\* whose optional fields are absent, falsy, at a bound, or outside a bound,
\* spelled in wire form or by attribute name.
FileModules ==
    { JObj({<< "type", JStr(t) >>} \cup text \cup size \cup padding
             \cup locked \cup custom) :
        t \in {"button", "html", "paragraph", "title", "heading",
                "unknown-widget"},
        text \in { {}, {<< "text", JStr("") >>}, {<< "text", JStr("Go") >>} },
        size \in { {}, {<< "size", JInt(MinSize) >>},
                   {<< "size", JInt(MinSize - 1) >>} },
        padding \in { {},
                      {<< "padding-top", JInt(MinPadding) >>},
                      {<< "padding_top", JInt(MaxPadding) >>},
                      {<< "padding-top", JInt(MaxPadding + 1) >>} },
        locked \in { {}, {<< "locked", JBool(FALSE) >>},
                     {<< "locked", JNull >>} },
        custom \in { {},
                     {<< "customFields", JObj({}) >>},
                     {<< "custom_fields", JObj({<< "n", JInt(0) >>}) >>},
                     {<< "customFields",
                         JObj({<< "b", JBool(FALSE) >>, << "s", JStr("") >>,
                               << "z", JNull >>}) >>} } }

FileDoc(m) ==
    JObj({<< "template",
             JObj({<< "type", JStr("email") >>,
                   << "rows",
                      JArr(<< JObj({<< "name", JStr("row") >>,
                                    << "colStackOnMobile", JBool(FALSE) >>,
                                    << "columns",
                                       JArr(<< JObj({<< "weight", JInt(6) >>,
                                                     << "background-color",
                                                        JStr("") >>,
                                                     << "modules",
                                                        JArr(<< m >>) >>})
                                            >>) >>}) >>) >>}) >>})

FileCandidates ==
    {FileDoc(m) : m \in FileModules}

-----------------------------------------------------------------------------
(* Arguments of the functions called by themselves *)



\* Keys of the three mappings, keys of none of them, the empty key, and keys
\* that differ from a known one in letter case.
KeySamples ==
    {Key_primary, Key_white, Key_icon,
     Key_facebook, Key_twitter, Key_instagram, Key_linkedin,
     Key_hero, Key_promo,
     <<"d","a","r","k">>,                  \* "dark"
     <<"t","i","k","t","o","k">>,          \* "tiktok"
     <<"f","o","o","t","e","r">>,          \* "footer"
     << >>,
     <<"F","a","c","e","b","o","o","k">>,  \* "Facebook"
     <<"P","r","i","m","a","r","y">>}

\* Widths and heights: every one up to MaxSide, and three above 2^49:
\* 788129934789843 and 1125899906842633, whose ratio is under 0.7 by less
\* than 10^-16, and 1688849860263937, which is 1.5 * 2^50 + 1.
SideSamples ==
    {PyInt(n) : n \in 1..MaxSide}
        \cup {[hi |-> 11744051, lo |-> 13421779],
              [hi |-> 16777216, lo |-> 9],
              [hi |-> 25165824, lo |-> 1]}

\* The two markers as written in the code, capitalised and in upper case,
\* and a word that stops short of a marker.
MarkerSpellings ==
    {CustomMarker,
     <<"C","u","s","t","o","m">>,          \* "Custom"
     <<"C","U","S","T","O","M">>,          \* "CUSTOM"
     GenerateMarker,
     <<"G","e","n","e","r","a","t","e">>,  \* "Generate"
     <<"G","E","N","E","R","A","T","E">>,  \* "GENERATE"
     <<"c","u","s","t","o">>}              \* "custo"

\* Descriptive references around these spellings: "Custom-art", "CUSTOM",
\* "GENERATE-hero", "my-custom-art", ...
ReferenceSamples ==
    {prefix \o word \o suffix :
        prefix \in {<< >>, <<"m","y","-">>},
        word \in MarkerSpellings,
        suffix \in {<< >>, <<"-","a","r","t">>, <<"-","h","e","r","o">>}}

-----------------------------------------------------------------------------
(* State *)

VARIABLES
    strategy,     \* AssetManager.strategy
    access_key,   \* whether UnsplashProvider.access_key is set
    base_url,     \* CustomAssetLibrary.base_url
    pc,           \* where the generation request is
    candidate,    \* the value the completion service returned, when rejected
    original,     \* the document as validated, before any resolution
    template,     \* the document, mutated in place by resolve_assets
    asset_map,    \* asset_map of generate_template_with_assets
    cursor,       \* index in Positions(template) of the next module to visit
    calls,        \* the AssetManager calls made so far, in order
    parsed,       \* the EmailTemplate instance save_template_to_file is given
    file,         \* the JSON document save_template_to_file wrote
    reloaded,     \* what validating the written document gave
    previous,     \* what an earlier generate_template_with_assets returned
    unit          \* one function called by itself: arguments and result

vars ==
    << strategy, access_key, base_url, pc, candidate, original, template,
       asset_map, cursor, calls, parsed, file, reloaded, previous, unit >>

\* The state that one generation and resolution leaves alone.
others ==
    << parsed, file, reloaded, previous, unit >>

\* No function has been called by itself.
NoUnit ==
    [op |-> "none", args |-> << >>, result |-> << >>]

config ==
    << strategy, access_key, base_url >>

NoDoc ==
    [type |-> "none", rows |-> << >>]

\* No earlier call has returned.
NoPrevious ==
    [mode |-> "none", template |-> NoDoc, asset_map |-> {}]

Init ==
    /\ strategy = "mixed"
    /\ access_key = FALSE
    /\ base_url = DefaultBaseUrl
    /\ pc = "start"
    /\ candidate = NoDoc
    /\ original = NoDoc
    /\ template = NoDoc
    /\ asset_map = {}
    /\ cursor = 0
    /\ calls = << >>
    /\ parsed = None
    /\ file = JNull
    /\ reloaded = Invalid
    /\ previous = NoPrevious
    /\ unit = NoUnit

-----------------------------------------------------------------------------
(* agent.py: generate_email_template *)

\* The completion parses into the agent.py schema and is returned.
GenerateEmailTemplate ==
    /\ pc = "start"
    /\ \E c \in Candidates :
        /\ AgentValid(c)
        /\ original' = AgentParse(c)
        /\ template' = AgentParse(c)
    /\ pc' = "agent_returned"
    /\ UNCHANGED << others, config, candidate, asset_map, cursor, calls >>

\* The completion violates the agent.py schema: the parse raises.
AgentValidationError ==
    /\ pc = "start"
    /\ \E c \in Candidates : ~AgentValid(c) /\ candidate' = c
    /\ pc' = "agent_validation_error"
    /\ UNCHANGED << others, config, original, template, asset_map, cursor, calls >>

\* message.parsed is None: ValueError
AgentNoTemplate ==
    /\ pc = "start"
    /\ pc' = "agent_value_error"
    /\ UNCHANGED << others, config, candidate, original, template, asset_map, cursor,
                    calls >>

-----------------------------------------------------------------------------
(* asset_manager.py: generate_template_with_assets *)

\* UnsplashProvider.__init__: access_key or os.getenv("UNSPLASH_ACCESS_KEY").
\* Only search_specific_image reads it, and get_image reaches that under
\* "mixed" and "dalle" alone; under the other strategies one value stands
\* for both.
KeyChoices(s) ==
    IF s \in {"mixed", "dalle"} THEN BOOLEAN ELSE {FALSE}

\* AssetManager(openai_client, strategy, custom_library), as the examples
\* build it before they call generate_template_with_assets.
\* The library each example builds its AssetManager with: the default
\* CustomAssetLibrary() under "unsplash" and "dalle" (and "placeholder"),
\* CustomAssetLibrary(base_url="https://cdn.mycompany.com") under "mixed".
NewAssetManager ==
    /\ pc = "start"
    /\ strategy' \in Strategies
    /\ access_key' \in KeyChoices(strategy')
    /\ base_url' = IF strategy' = "mixed" THEN CompanyBaseUrl ELSE DefaultBaseUrl
    /\ pc' = "ready"
    /\ UNCHANGED << others, candidate, original, template, asset_map, cursor,
                    calls >>

\* The completion parses into the asset_manager.py schema; resolution starts.
ParseTemplate ==
    /\ pc = "ready"
    /\ \E c \in Candidates :
        /\ AssetsValid(c)
        /\ original' = AssetsParse(c)
        /\ template' = AssetsParse(c)
    /\ pc' = "resolving"
    /\ asset_map' = {}
    /\ cursor' = 1
    /\ UNCHANGED << others, config, candidate, calls >>

\* The completion violates the asset_manager.py schema: the parse raises.
ParseValidationError ==
    /\ pc = "ready"
    /\ \E c \in Candidates : ~AssetsValid(c) /\ candidate' = c
    /\ pc' = "validation_error"
    /\ UNCHANGED << others, config, original, template, asset_map, cursor, calls >>

\* if not template: raise ValueError
ParseNoTemplate ==
    /\ pc = "ready"
    /\ pc' = "value_error"
    /\ UNCHANGED << others, config, candidate, original, template, asset_map, cursor,
                    calls >>

Visiting ==
    pc = "resolving" /\ cursor <= Len(Positions(template))

Here ==
    Positions(template)[cursor]

Obj ==
    ModuleAt(template, Here)

\* What the external service did is never taken into account.
ServiceCalled_Never(via) ==
    FALSE

\* Whether a call that consulted these providers reached an external
\* service: the image generation, or the search when a credential is set.
ServiceCalled(via) ==
    \/ via[1] = "dalle.generate_image"
    \/ via[1] = "unsplash.search_specific_image" /\ access_key

\* One AssetManager call as recorded: the method, the reference it was made
\* for, where that module is, what the external service did during the call
\* ("none" for a call that reached no service), the providers consulted and
\* the URL returned.
Call(op, ref, pos, net, res) ==
    [op |-> op, ref |-> ref, pos |-> pos,
     net |-> IF ServiceCalled(res.via) THEN net ELSE "none",
     via |-> res.via, url |-> res.value]

\* The ImageModule branch of resolve_assets once the URL is (or is not) there:
\* asset_map[description] = ...; obj.src = asset_map[description]
Assign(op, description, net, res) ==
    \E r \in {res}, p \in {Here} :
        /\ calls' = Append(calls, Call(op, description, p, net, r))
        /\ IF r.raised
           THEN /\ pc' = "raised"
                /\ UNCHANGED << template, asset_map, cursor >>
           ELSE /\ asset_map' = DictSet(asset_map, description, r.value)
                /\ template' = SetSrc(template, p,
                                      DictIndex(asset_map', description))
                /\ cursor' = cursor + 1
                /\ pc' = pc
        /\ UNCHANGED << others, config, candidate, original >>

\* resolve_assets on an ImageModule whose src starts with "logo-"
ResolveLogo ==
    /\ Visiting
    /\ Obj.cls = "ImageModule"
    /\ StartsWith(Obj.src[1], LogoPrefix)
    /\ Assign("get_logo", Obj.src[1], "none",
              GetLogo(base_url, Remove(Obj.src[1], LogoPrefix)))

\* resolve_assets on an ImageModule whose src starts with "social-"
ResolveSocial ==
    /\ Visiting
    /\ Obj.cls = "ImageModule"
    /\ ~StartsWith(Obj.src[1], LogoPrefix)
    /\ StartsWith(Obj.src[1], SocialPrefix)
    /\ LET platform == Remove(Obj.src[1], SocialPrefix)
       IN  Assign("get_social_icons", Obj.src[1], "none",
                  Via(Ret(DictIndex(GetSocialIcons(base_url, << platform >>),
                                    platform)),
                      <<"custom.get_social_icon">>))

\* resolve_assets on any other ImageModule: asset_manager.get_image
ResolveImage ==
    /\ Visiting
    /\ Obj.cls = "ImageModule"
    /\ ~StartsWith(Obj.src[1], LogoPrefix)
    /\ ~StartsWith(Obj.src[1], SocialPrefix)
    /\ \E net \in Outcomes :
        Assign("get_image", Obj.src[1], net,
               GetImage(strategy, access_key, Query(Obj), DefaultWidth,
                        DefaultHeight, UseAi(Obj.src[1]), net))

\* resolve_assets on a module that is no ImageModule: its attribute values
\* are strings and None, which hold nothing to resolve.
VisitOther ==
    /\ Visiting
    /\ Obj.cls # "ImageModule"
    /\ cursor' = cursor + 1
    /\ UNCHANGED << others, config, pc, candidate, original, template, asset_map,
                    calls >>

\* return template, asset_map
ReturnTemplate ==
    /\ pc = "resolving"
    /\ cursor > Len(Positions(template))
    /\ pc' = "returned"
    /\ UNCHANGED << others, config, candidate, original, template, asset_map, cursor,
                    calls >>

-----------------------------------------------------------------------------

Next ==
    \/ GenerateEmailTemplate
    \/ AgentValidationError
    \/ AgentNoTemplate
    \/ NewAssetManager
    \/ ParseTemplate
    \/ ParseValidationError
    \/ ParseNoTemplate
    \/ ResolveLogo
    \/ ResolveSocial
    \/ ResolveImage
    \/ VisitOther
    \/ ReturnTemplate

Spec ==
    Init /\ [][Next]_vars

-----------------------------------------------------------------------------
(* agent.py: save_template_to_file, and reading the file back *)

\* The module of a one-module document instance.
OnlyModule(doc) ==
    doc.fields.template[1].fields.rows[1][1].fields.columns[1][1]
       .fields.modules[1][1]

\* The completion parses into the agent.py schema, field by field.
ParseCompletion ==
    /\ pc = "start"
    /\ \E c \in FileCandidates :
        \E r \in {ModelValidate("EmailTemplate", c)} :
            /\ r.ok
            /\ parsed' = r.value
    /\ pc' = "parsed"
    /\ UNCHANGED << config, candidate, original, template, asset_map, cursor,
                    calls, file, reloaded, previous, unit >>

\* The completion violates the schema: the parse raises.
ParseCompletionError ==
    /\ pc = "start"
    /\ \E c \in FileCandidates :
        /\ ~ModelValidate("EmailTemplate", c).ok
        /\ file' = c
    /\ pc' = "completion_error"
    /\ UNCHANGED << config, candidate, original, template, asset_map, cursor,
                    calls, parsed, reloaded, previous, unit >>

\* json.dump(template.model_dump(by_alias=True, exclude_none=True), f)
SaveTemplateToFile ==
    /\ pc = "parsed"
    /\ file' = ModelDump(parsed)
    /\ pc' = "saved"
    /\ UNCHANGED << config, candidate, original, template, asset_map, cursor,
                    calls, parsed, reloaded, previous, unit >>

\* EmailTemplate.model_validate(json.load(f)) on the written file
ValidateFile ==
    /\ pc = "saved"
    /\ reloaded' = ModelValidate("EmailTemplate", file)
    /\ pc' = "reloaded"
    /\ UNCHANGED << config, candidate, original, template, asset_map, cursor,
                    calls, parsed, file, previous, unit >>

NextFile ==
    \/ ParseCompletion
    \/ ParseCompletionError
    \/ SaveTemplateToFile
    \/ ValidateFile

SpecFile ==
    Init /\ [][NextFile]_vars

-----------------------------------------------------------------------------
(* asset_manager.py: generate_template_with_assets called a second time *)

\* No call of the pass so far reached an external service.
Offline ==
    \A j \in 1..Len(calls) : calls[j].net = "none"

\* A step of a pass in which no call has reached an external service.
OfflineStep ==
    /\ \/ ResolveLogo
       \/ ResolveSocial
       \/ ResolveImage
       \/ VisitOther
    /\ \A j \in 1..Len(calls') : calls'[j].net = "none"

\* A second call on the same AssetManager after a first that stayed
\* offline: the completion parses into the document doc, and asset_map
\* starts empty again.
ParseAgain(mode, doc) ==
    /\ pc = "returned"
    /\ previous = NoPrevious
    /\ Offline
    /\ previous' = [mode |-> mode, template |-> template,
                    asset_map |-> asset_map]
    /\ original' = doc
    /\ template' = doc
    /\ asset_map' = {}
    /\ cursor' = 1
    /\ calls' = << >>
    /\ pc' = "resolving"
    /\ UNCHANGED << config, candidate, parsed, file, reloaded, unit >>

\* The second completion equals the first, not yet resolved.
ParseEqualTemplate ==
    ParseAgain("equal", original)

\* The second completion equals the document the first call returned.
ParseResolvedTemplate ==
    ParseAgain("resolved", template)

NextTwice ==
    \/ NewAssetManager
    \/ ParseTemplate
    \/ OfflineStep
    \/ ReturnTemplate
    \/ ParseEqualTemplate
    \/ ParseResolvedTemplate

SpecTwice ==
    Init /\ [][NextTwice]_vars

-----------------------------------------------------------------------------
(* Functions called by themselves *)

Called(op, args, result) ==
    /\ pc = "start"
    /\ unit' = [op |-> op, args |-> args, result |-> result]
    /\ pc' = "called"
    /\ UNCHANGED << config, candidate, original, template, asset_map, cursor,
                    calls, parsed, file, reloaded, previous >>

\* CustomAssetLibrary(base_url).get_logo(variant)
LookupLogo ==
    \E url \in {DefaultBaseUrl, CompanyBaseUrl}, variant \in KeySamples :
        Called("get_logo", << url, variant >>, LibGetLogo(url, variant))

\* CustomAssetLibrary(base_url).get_social_icon(platform)
LookupSocialIcon ==
    \E url \in {DefaultBaseUrl, CompanyBaseUrl}, platform \in KeySamples :
        Called("get_social_icon", << url, platform >>,
               LibGetSocialIcon(url, platform))

\* CustomAssetLibrary(base_url).get_banner(type)
LookupBanner ==
    \E url \in {DefaultBaseUrl, CompanyBaseUrl}, type \in KeySamples :
        Called("get_banner", << url, type >>, LibGetBanner(url, type))

\* AssetManager._get_dalle_size(width, height)
AspectClass ==
    \E width \in SideSamples, height \in SideSamples :
        Called("_get_dalle_size", << width, height >>,
               GetDalleSize(width, height))

\* resolve_assets classifying a descriptive reference: use_ai
ClassifyReference ==
    \E description \in ReferenceSamples :
        Called("use_ai", << description >>, UseAi(description))

NextUnits ==
    \/ LookupLogo
    \/ LookupSocialIcon
    \/ LookupBanner
    \/ AspectClass
    \/ ClassifyReference

SpecUnits ==
    Init /\ [][NextUnits]_vars

-----------------------------------------------------------------------------
(* Vocabulary of the properties *)

\* A resolution pass is under way or over (returned, or left by an exception).
InPass ==
    pc \in {"resolving", "returned", "raised"}

\* A document was accepted by one of the two schemas.
Accepted ==
    InPass \/ pc = "agent_returned"

\* The positions of the ImageModules of a document.
ImagePositions(doc) ==
    LET ps == Positions(doc)
    IN  {i \in 1..Len(ps) : ModuleAt(doc, ps[i]).cls = "ImageModule"}

\* The reference string the module at position index i had before the pass.
OriginalRef(i) ==
    ModuleAt(original, Positions(original)[i]).src[1]

\* The reference strings of the ImageModules of the validated document.
OriginalRefs ==
    {OriginalRef(i) : i \in ImagePositions(original)}

\* The calls made for reference d, as indices of calls.
CallsFor(d) ==
    {i \in 1..Len(calls) : calls[i].ref = d}

\* The modules of a document, in traversal order.
Modules(doc) ==
    [i \in 1..Len(Positions(doc)) |-> ModuleAt(doc, Positions(doc)[i])]

-----------------------------------------------------------------------------
(* Properties *)

\* C1: after a resolution pass, a reference string that is the src of two or
\* more Image modules has had its strategy resolution (get_image, get_logo,
\* get_social_icons) invoked exactly once.  The code has no memo: it calls
\* the AssetManager for every occurrence.
C1_ResolvedOncePerReference ==
    pc = "returned" =>
        \A d \in OriginalRefs :
            Cardinality({i \in ImagePositions(original) : OriginalRef(i) = d}) >= 2
                => Cardinality(CallsFor(d)) = 1

\* C2: after a resolution pass, every Image module holds in src the URL the
\* audit map records for the reference string the module started with.
C2_SrcIsAuditMapUrl ==
    pc = "returned" =>
        \A i \in ImagePositions(original) :
            Modules(template)[i].src = Some(DictIndex(asset_map, OriginalRef(i)))

\* C3: the audit map has one entry per unique original reference string, and
\* its value is the URL obtained at the first occurrence of that string in
\* traversal order.
C3_FirstSeenWins ==
    pc = "returned" =>
        /\ DictKeys(asset_map) = OriginalRefs
        /\ Cardinality(asset_map) = Cardinality(OriginalRefs)
        /\ \A d \in OriginalRefs :
            LET first == CHOOSE i \in CallsFor(d) : \A j \in CallsFor(d) : i <= j
            IN  DictIndex(asset_map, d) = calls[first].url

\* "/logo-primary.png"
PrimaryLogoFile ==
    <<"/","l","o","g","o","-","p","r","i","m","a","r","y",".","p","n","g">>

\* "https://"
HttpsScheme ==
    <<"h","t","t","p","s",":","/","/">>

\* C4: under every policy, an Image module whose reference is "logo-primary"
\* ends, once visited, with the primary-logo URL of the configured library,
\* through exactly one call that consulted the curated library alone.
C4_LogoPrimaryFromCuratedLibrary ==
    InPass =>
        LET ps == Positions(original)
        IN  \A i \in 1..Len(ps) :
                LET m == ModuleAt(original, ps[i])
                IN  (/\ i < cursor
                     /\ m.cls = "ImageModule"
                     /\ m.src = Some(RefLogoPrimary)) =>
                        /\ ModuleAt(template, ps[i]).src
                                = Some(base_url \o PrimaryLogoFile)
                        /\ Cardinality({j \in 1..Len(calls) :
                                            calls[j].pos = ps[i]}) = 1
                        /\ \A j \in 1..Len(calls) :
                            calls[j].pos = ps[i]
                                => calls[j].via = <<"custom.get_logo">>

\* A "logo-primary" module was resolved under "mixed", the policy whose
\* library is configured with another base URL than the default.
C4_Witness ==
    /\ pc = "returned"
    /\ strategy = "mixed"
    /\ base_url # DefaultBaseUrl
    /\ \E i \in ImagePositions(original) : OriginalRef(i) = RefLogoPrimary

\* Call j is a get_image call for a reference without the AI markers, made
\* under "mixed", whose authenticated search yielded no result: no
\* credential, a network error, or an empty result list.
MixedSearchFailed(j) ==
    /\ strategy = "mixed"
    /\ calls[j].op = "get_image"
    /\ ~UseAi(calls[j].ref)
    /\ (~access_key \/ calls[j].net \in {"error", "empty"})

\* The descriptive query of call j: the module's alt text when it is not
\* empty, the reference string otherwise.
QueryOfCall(j) ==
    Query(ModuleAt(original, calls[j].pos))

\* Call j fell through to the Placeholder strategy, and the module holds its
\* URL.
FellThroughToPlaceholder(j) ==
    /\ calls[j].via = <<"unsplash.search_specific_image",
                        "placeholder.get_image_url">>
    /\ StartsWith(calls[j].url, PlaceholdPrefix)
    /\ ModuleAt(template, calls[j].pos).src = Some(calls[j].url)

\* C5 as claimed: under "mixed", a generic reference whose authenticated
\* search yields no result falls through to Placeholder, and the module ends
\* with a Placeholder URL containing the URL-escaped reference string.
C5_PlaceholderHoldsEscapedReference ==
    InPass =>
        \A j \in 1..Len(calls) :
            MixedSearchFailed(j) =>
                /\ FellThroughToPlaceholder(j)
                /\ Contains(calls[j].url, Quote(calls[j].ref))

\* C5 as amended: under "mixed", a generic reference whose authenticated
\* search yields no result falls through to Placeholder, and the module ends
\* with a Placeholder URL containing the URL-escaped first 50 characters of
\* the descriptive query (the alt text when not empty, else the reference).
C5_PlaceholderHoldsEscapedQueryPrefix ==
    InPass =>
        \A j \in 1..Len(calls) :
            MixedSearchFailed(j) =>
                /\ FellThroughToPlaceholder(j)
                /\ Contains(calls[j].url,
                            Quote(Take(QueryOfCall(j), PlaceholderTextLen)))

\* Under "mixed" with a credential, a search answered with an empty result
\* list, for a module whose alt text is longer than 50 characters.
C5_Witness ==
    /\ pc = "returned"
    /\ access_key
    /\ \E j \in 1..Len(calls) :
        /\ MixedSearchFailed(j)
        /\ calls[j].net = "empty"
        /\ Len(QueryOfCall(j)) > PlaceholderTextLen

\* C6: under every policy and for every outcome of the external calls,
\* resolving a generic image reference never raises: no exception leaves the
\* pass, every Image module visited so far has had its one call and the
\* traversal has moved on, each get_image call leaves a URL in the module,
\* and a provider call that raised leaves a placeholder URL.
C6_GenericImageNeverRaises ==
    /\ pc # "raised"
    /\ InPass =>
        /\ cursor <= Len(Positions(original)) + 1
        /\ Len(calls) =
              Cardinality({i \in ImagePositions(original) : i < cursor})
    /\ \A j \in 1..Len(calls) :
        calls[j].op = "get_image" =>
            /\ StartsWith(calls[j].url, HttpsScheme)
            /\ ModuleAt(template, calls[j].pos).src = Some(calls[j].url)
            /\ calls[j].net = "error"
                 => StartsWith(calls[j].url, PlaceholdPrefix)

\* A pass returned after an image generation call that raised.
C6_Witness ==
    /\ pc = "returned"
    /\ \E j \in 1..Len(calls) :
        /\ calls[j].op = "get_image"
        /\ calls[j].net = "error"
        /\ calls[j].via = <<"dalle.generate_image">>

\* A module with the one field a pass may rewrite blanked.
MaskSrc(m) ==
    IF m.cls = "ImageModule" THEN [m EXCEPT !.src = None] ELSE m

\* C7: a resolution pass changes nothing in the document but the src of
\* Image modules: rows, columns and modules keep their number and order,
\* every module its type, every non-Image module all its fields and every
\* Image module all its fields but src.
C7_OnlyImageSrcChanges ==
    InPass =>
        /\ template.type = original.type
        /\ Len(template.rows) = Len(original.rows)
        /\ \A r \in 1..Len(original.rows) :
            /\ template.rows[r].name = original.rows[r].name
            /\ Len(template.rows[r].columns) = Len(original.rows[r].columns)
            /\ \A c \in 1..Len(original.rows[r].columns) :
                LET t == template.rows[r].columns[c]
                    o == original.rows[r].columns[c]
                IN  /\ t.weight = o.weight
                    /\ Len(t.modules) = Len(o.modules)
                    /\ \A m \in 1..Len(o.modules) :
                        MaskSrc(t.modules[m]) = MaskSrc(o.modules[m])

\* A pass returned after rewriting an Image module that has an alt text, in a
\* document that also holds a module of another class in another column.
C7_Witness ==
    /\ pc = "returned"
    /\ template # original
    /\ Len(template.rows[1].columns) = 2
    /\ \E i, k \in 1..Len(Positions(original)) :
        /\ Modules(original)[i].cls = "ImageModule"
        /\ Modules(original)[i].alt # Some(<< >>)
        /\ Modules(original)[k].cls = "ButtonModule"

\* The module type tags of the specification's closed set.
ClosedTypes ==
    {"button", "divider", "html", "icons", "image", "list", "menu",
     "paragraph", "title"}

\* C8: no document is accepted, by either schema, that holds a module whose
\* type tag is outside the closed set.
C8_UnknownTypeRejected ==
    Accepted =>
        \A i \in 1..Len(Positions(original)) :
            Modules(original)[i].type \in ClosedTypes

\* C9: every Row of an accepted document, also of a document handed to the
\* Asset Resolver, has between 1 and 12 Columns.
C9_RowHasOneToTwelveColumns ==
    Accepted =>
        \A r \in 1..Len(original.rows) :
            /\ Len(original.rows[r].columns) >= 1
            /\ Len(original.rows[r].columns) <= 12

\* C10: every accepted document has at least one Row, and every Column of it
\* at least one Module.
C10_ColumnsAndRowsNonEmpty ==
    Accepted =>
        /\ Len(original.rows) >= 1
        /\ \A r \in 1..Len(original.rows) :
            \A c \in 1..Len(original.rows[r].columns) :
                Len(original.rows[r].columns[c].modules) >= 1

\* The keys a dump of the module may hold: the aliases of its fields.
WireKeys(m) ==
    {Fields(m.cls)[i].alias : i \in 1..Len(Fields(m.cls))}

\* C11: the file written for a valid document holds each module field that
\* is not None, and no other, under its wire name, and validating the file
\* gives a document equal to the one saved: module class and type tag,
\* falsy values and custom-fields contents included.
C11_SavedFileRoundTrips ==
    /\ pc \in {"saved", "reloaded"} =>
        LET m == OnlyModule(parsed)
            j == file.val.template.val.rows.val[1].val.columns.val[1]
                     .val.modules.val[1]
            fs == Fields(m.cls)
        IN  /\ DOMAIN j.val \subseteq WireKeys(m)
            /\ \A i \in 1..Len(fs) :
                  fs[i].alias \in DOMAIN j.val <=> m.fields[fs[i].name] # None
    /\ pc = "reloaded" =>
        /\ reloaded.ok
        /\ reloaded.value = parsed

\* A saved and reloaded document whose module is a title tagged "heading"
\* with an empty text, a zero padding, locked false and a custom-fields
\* mapping that holds false, an empty string and null.
C11_Witness ==
    /\ pc = "reloaded"
    /\ LET m == OnlyModule(parsed)
       IN  /\ m.cls = "TitleModule"
           /\ m.fields.type = Some("heading")
           /\ m.fields.text = Some("")
           /\ m.fields.size = None
           /\ m.fields.padding_top = Some(MinPadding)
           /\ m.fields.locked = Some(FALSE)
           /\ m.fields.custom_fields # None
           /\ DOMAIN m.fields.custom_fields[1] = {"b", "s", "z"}
           /\ m.fields.custom_fields[1]["z"] = JNull

ConsultedGenerative(j) ==
    \E i \in 1..Len(calls[j].via) : calls[j].via[i] = "dalle.generate_image"

C14_MarkersMatchInAnyCase ==
    unit.op = "use_ai" =>
        (unit.result <=>
            \/ Contains(Lower(unit.args[1]), CustomMarker)
            \/ Contains(Lower(unit.args[1]), GenerateMarker))

\* The keys of the mapping a library lookup reads; get_social_icon looks
\* the platform up in lower case.
KnownKeys(op) ==
    LET dict == CASE op = "get_logo" -> Logos(<< >>)
                  [] op = "get_social_icon" -> Social(<< >>)
                  [] op = "get_banner" -> Banners(<< >>)
    IN  {e[1] : e \in dict}

LookedUpKey ==
    IF unit.op = "get_social_icon" THEN Lower(unit.args[2]) ELSE unit.args[2]

\* C15: get_logo, get_social_icon and get_banner return the empty string for
\* every key that is not in their mapping.  get_logo returns the primary
\* logo for such a key.
C15_UnknownKeyGivesEmptyResult ==
    (/\ unit.op \in {"get_logo", "get_social_icon", "get_banner"}
     /\ LookedUpKey \notin KnownKeys(unit.op))
        => unit.result = << >>

\* C16: for all positive widths and heights _get_dalle_size gives the
\* landscape size when width / height is above 1.5, the portrait size when
\* it is below 0.7, and the square size otherwise, the ratios 1.5 and 0.7
\* themselves included.  The code compares the rounded quotient: a ratio
\* under 0.7 by less than the rounding gives the square size.
C16_AspectClassByRatio ==
    unit.op = "_get_dalle_size" =>
        LET width == unit.args[1]
            height == unit.args[2]
        IN  /\ Diff(10, width, 15, height) > 0 => unit.result = "1792x1024"
            /\ Diff(7, height, 10, width) > 0 => unit.result = "1024x1792"
            /\ (Diff(10, width, 15, height) <= 0
                    /\ Diff(7, height, 10, width) <= 0)
                  => unit.result = "1024x1024"

\* C17: after a resolution pass every Image module holds a URL that is not
\* empty, and so does every entry of asset_map.  For "social-<platform>" with
\* a platform the library does not hold, get_social_icon returns "" and the
\* pass writes it into src.
C17_ResolvedSrcNotEmpty ==
    pc = "returned" =>
        /\ \A i \in ImagePositions(template) :
              Truthy(Modules(template)[i].src)
        /\ \A e \in asset_map : e[2] # << >>

\* C18: with the same AssetManager and no external service reached, a
\* second pass over the document a first pass returned leaves the src of
\* every Image module as it was.  The code classifies the URL a first pass
\* wrote as a descriptive reference and resolves it again.
C18_SecondPassKeepsSrc ==
    (pc = "returned" /\ previous.mode = "resolved" /\ Offline) =>
        \A i \in ImagePositions(template) :
            Modules(template)[i].src = Modules(previous.template)[i].src

\* C19: under "dalle" a get_image call without use_ai consults neither the
\* image generation nor the Unsplash URL template: it runs the authenticated
\* search and, when that yields no result, the placeholder provider, and
\* returns what the same call returns under "mixed".
C19_DalleWithoutUseAiAsMixed ==
    \A j \in 1..Len(calls) :
        (/\ strategy = "dalle"
         /\ calls[j].op = "get_image"
         /\ ~UseAi(calls[j].ref)) =>
            /\ calls[j].via[1] = "unsplash.search_specific_image"
            /\ \A i \in 1..Len(calls[j].via) :
                  calls[j].via[i] \notin {"dalle.generate_image",
                                          "unsplash.get_image_url"}
            /\ (~access_key \/ calls[j].net \in {"error", "empty"})
                  => /\ calls[j].via = <<"unsplash.search_specific_image",
                                         "placeholder.get_image_url">>
                     /\ StartsWith(calls[j].url, PlaceholdPrefix)
            /\ calls[j].url =
                  GetImage("mixed", access_key, QueryOfCall(j), DefaultWidth,
                           DefaultHeight, FALSE, calls[j].net).value

\* A pass under "dalle" with a credential has resolved a reference without
\* the AI markers whose search came back empty, from the placeholder
\* provider.
C19_Witness ==
    /\ pc = "returned"
    /\ strategy = "dalle"
    /\ access_key
    /\ \E j \in 1..Len(calls) :
        /\ calls[j].op = "get_image"
        /\ ~UseAi(calls[j].ref)
        /\ calls[j].net = "empty"
        /\ calls[j].via = <<"unsplash.search_specific_image",
                            "placeholder.get_image_url">>

=============================================================================
